---- MODULE Spec2Model ----
(***************************************************************************)
(* Endemic Species & Economy Explorer (map.js): the lazy preload of the    *)
(* three Wikidata tables, the retrying SPARQL client and the continent /   *)
(* country click handlers, as a state machine over the browser event loop. *)
(* One action is one macrotask: a click, the settling of a fetch, the      *)
(* settling of a body read, the firing of a backoff timer.                 *)
(***************************************************************************)
EXTENDS Integers, Sequences, FiniteSets, TLC

(* ---------------------------------------------------------------- bounds *)
MaxHandlers == 2        \* handler activations the model can hold at once
MaxClicks == 2          \* clicks that pass the guards, per session
TickMs == 15000         \* granularity of the wall clock
MaxElapsedMs == 15000   \* the clock of one request is followed this far

(* ----------------------------------------------------- program constants *)
Retries == 3            \* runSparqlGETWithRetry: retries = 3
BaseDelayMs == 400      \* runSparqlGETWithRetry: baseDelayMs = 400
TimeoutMs == 15000      \* EXAM_GUIDE: setTimeout(() => controller.abort(), 15000)

Null == "null"         \* null / undefined where the value is a string
NaN == -1000000         \* the one non-finite number; no count or id reaches it
NullId == -1            \* state.countryId = null

(* ------------------------------------------------- strings and coercions *)
\* A JavaScript string is a sequence of one-character strings.
Digits == <<"0", "1", "2", "3", "4", "5", "6", "7", "8", "9">>

IsDigit(c) == \E i \in 1..10 : Digits[i] = c

DigitVal(c) == (CHOOSE i \in 1..10 : Digits[i] = c) - 1

RECURSIVE DigitPrefix(_, _)
\* value of the longest run of digits at the head of s, continuing acc
DigitPrefix(s, acc) ==
    IF s = <<>> \/ ~IsDigit(Head(s)) THEN acc
    ELSE DigitPrefix(Tail(s), acc * 10 + DigitVal(Head(s)))

RECURSIVE SkipSpace(_)
SkipSpace(s) == IF s # <<>> /\ Head(s) = " " THEN SkipSpace(Tail(s)) ELSE s

\* parseInt(str, 10): leading blanks, an optional sign, then the digits up
\* to the first character that is not one; NaN when there is no digit.
ParseInt(str) ==
    LET t == SkipSpace(str)
        neg == t # <<>> /\ Head(t) = "-"
        u == IF t # <<>> /\ Head(t) \in {"-", "+"} THEN Tail(t) ELSE t
    IN IF u = <<>> \/ ~IsDigit(Head(u)) THEN NaN
       ELSE IF neg THEN 0 - DigitPrefix(u, 0) ELSE DigitPrefix(u, 0)

RECURSIVE AllDigits(_)
AllDigits(s) == s = <<>> \/ (IsDigit(Head(s)) /\ AllDigits(Tail(s)))

RECURSIVE TrimRight(_)
TrimRight(s) ==
    IF s # <<>> /\ s[Len(s)] = " " THEN TrimRight(SubSeq(s, 1, Len(s) - 1)) ELSE s

\* unary plus on a string: the whole trimmed text must be a decimal integer
\* literal (the blank string is 0), anything else is NaN.
ToNumber(v) ==
    LET t == TrimRight(SkipSpace(v))
        neg == t # <<>> /\ Head(t) = "-"
        u == IF t # <<>> /\ Head(t) \in {"-", "+"} THEN Tail(t) ELSE t
    IN IF t = <<>> THEN 0
       ELSE IF u = <<>> \/ ~AllDigits(u) THEN NaN
       ELSE IF neg THEN 0 - DigitPrefix(u, 0) ELSE DigitPrefix(u, 0)

\* Number.isFinite on the values the model holds
IsFinite(x) == x # NaN

\* r.f?.value is truthy: the row has the field and its string is not empty
Truthy(r, f) == f \in DOMAIN r /\ r[f] # <<>>

\* +(r.f?.value || 0)
NumField(r, f) == IF Truthy(r, f) THEN ToNumber(r[f]) ELSE 0

\* r.f?.value || ''
StrField(r, f) == IF Truthy(r, f) THEN r[f] ELSE <<>>

\* x || 0 on a number: NaN and 0 are falsy
OrZero(x) == IF x = NaN THEN 0 ELSE x

\* slip: a key already there keeps its value
MapSet_keepsFirst(m, k, v) ==
    [x \in (DOMAIN m) \cup {k} |-> IF x \in DOMAIN m THEN m[x] ELSE v]

\* Map.prototype.set on a map held as a function
MapSet(m, k, v) == [x \in (DOMAIN m) \cup {k} |-> IF x = k THEN v ELSE m[x]]

EmptyMap == [x \in {} |-> Null]

(* --------------------------------------------------------- table builders *)
\* A parsed response body is held as its results.bindings: a sequence of
\* rows, each a function from the names of the fields it carries to their
\* string values.  A body without results.bindings is the empty sequence.

\* const isoInt = isoNumStr ? parseInt(isoNumStr, 10) : NaN
IsoInt(r) == IF Truthy(r, "isoNum") THEN ParseInt(r["isoNum"]) ELSE NaN

EndemicRecord(r) ==
    [countryLabel |-> StrField(r, "countryLabel"),
     iso3 |-> StrField(r, "iso3"),
     isoNum |-> r["isoNum"],
     totalEndemicSpecies |-> NumField(r, "totalEndemicSpecies"),
     nearThreatenedEndemicSpecies |-> NumField(r, "nearThreatenedEndemicSpecies"),
     vulnerableEndemicSpecies |-> NumField(r, "vulnerableEndemicSpecies"),
     endangeredEndemicSpecies |-> NumField(r, "endangeredEndemicSpecies"),
     criticallyEndangeredEndemicSpecies |->
         NumField(r, "criticallyEndangeredEndemicSpecies")]

GdpRecord(r) ==
    [countryLabel |-> StrField(r, "countryLabel"),
     iso3 |-> StrField(r, "iso3"),
     isoNum |-> r["isoNum"],
     gdpUSD |-> NumField(r, "gdpUSD"),
     gdpYear |-> StrField(r, "gdpYear")]

PopulationRecord(r) ==
    [countryLabel |-> StrField(r, "countryLabel"),
     iso3 |-> StrField(r, "iso3"),
     isoNum |-> r["isoNum"],
     population |-> NumField(r, "population"),
     popYear |-> StrField(r, "popYear")]

RECURSIVE BuildEndemicLoop(_, _)
BuildEndemicLoop(rows, m) ==
    IF rows = <<>> THEN m
    ELSE LET r == Head(rows)
         IN IF ~IsFinite(IsoInt(r)) THEN BuildEndemicLoop(Tail(rows), m)
            ELSE BuildEndemicLoop(Tail(rows), MapSet(m, IsoInt(r), EndemicRecord(r)))

\* slip: the loop starts at the second row
buildEndemicMap_skipsFirst(json) ==
    IF json = <<>> THEN EmptyMap ELSE BuildEndemicLoop(Tail(json), EmptyMap)

buildEndemicMap(json) == BuildEndemicLoop(json, EmptyMap)

RECURSIVE BuildGdpLoop(_, _)
BuildGdpLoop(rows, m) ==
    IF rows = <<>> THEN m
    ELSE LET r == Head(rows)
         IN IF ~IsFinite(IsoInt(r)) THEN BuildGdpLoop(Tail(rows), m)
            ELSE BuildGdpLoop(Tail(rows), MapSet(m, IsoInt(r), GdpRecord(r)))

buildGdpMap(json) == BuildGdpLoop(json, EmptyMap)

RECURSIVE BuildPopulationLoop(_, _)
BuildPopulationLoop(rows, m) ==
    IF rows = <<>> THEN m
    ELSE LET r == Head(rows)
         IN IF ~IsFinite(IsoInt(r)) THEN BuildPopulationLoop(Tail(rows), m)
            ELSE BuildPopulationLoop(Tail(rows),
                                     MapSet(m, IsoInt(r), PopulationRecord(r)))

buildPopulationMap(json) == BuildPopulationLoop(json, EmptyMap)

(* ------------------------------------------------------ the world drawn *)
\* The country features of the basemap with the continent inferContinent
\* gives each (a geographic heuristic, taken here as given).
Countries ==
    << [id |-> <<"0", "7", "6">>, name |-> "Brazil", inferred |-> "South America"],
       [id |-> <<"2", "5", "0">>, name |-> "France", inferred |-> "Europe"],
       [id |-> <<"2", "7", "6">>, name |-> "Germany", inferred |-> "Europe"],
       [id |-> <<"-", "9", "9">>, name |-> "N. Cyprus", inferred |-> "Unassigned"] >>

RECURSIVE AssignLoop(_, _, _)
\* countries.forEach of assignContinents: byId is continentByCountryId,
\* byCont is countriesByContinent (continent -> features in basemap order)
AssignLoop(i, byId, byCont) ==
    IF i > Len(Countries) THEN [byId |-> byId, byCont |-> byCont]
    ELSE LET feature == Countries[i]
             continent == feature.inferred
             byId2 == MapSet(byId, feature.id, continent)
             old == IF continent \in DOMAIN byCont THEN byCont[continent] ELSE <<>>
         IN IF continent = "Unassigned" THEN AssignLoop(i + 1, byId2, byCont)
            ELSE AssignLoop(i + 1, byId2,
                            MapSet(byCont, continent, Append(old, feature)))

assignContinents == AssignLoop(1, EmptyMap, EmptyMap)

\* the continents array: one feature per bucket, named after it
ContinentNames == DOMAIN assignContinents.byCont

\* what a click on the continent layer can hand to handleContinentClick:
\* a continent feature, or no feature at all
ContinentFeatures ==
    {[present |-> TRUE, id |-> <<>>, name |-> n] : n \in ContinentNames}
        \cup {[present |-> FALSE, id |-> <<>>, name |-> Null]}

\* what a click on the country layer can hand to handleCountryClick
CountryFeatures ==
    {[present |-> TRUE, id |-> Countries[i].id, name |-> Countries[i].name] :
        i \in 1..Len(Countries)}
        \cup {[present |-> FALSE, id |-> <<>>, name |-> Null]}

(* -------------------------------------------------- what QLever may answer *)
Str76 == <<"7", "6">>
Str250 == <<"2", "5", "0">>
Str276 == <<"2", "7", "6">>
Y2018 == <<"2", "0", "1", "8">>
Y2020 == <<"2", "0", "2", "0">>

EndemicBodies ==
    { << [isoNum |-> Str76, countryLabel |-> <<"B">>,
          totalEndemicSpecies |-> <<"1", "2", "0">>,
          criticallyEndangeredEndemicSpecies |-> <<"5">>],
         [isoNum |-> <<"a", "b", "c">>, totalEndemicSpecies |-> <<"9">>] >>,
      << [isoNum |-> Str250, totalEndemicSpecies |-> <<"0">>,
          nearThreatenedEndemicSpecies |-> <<"0">>,
          vulnerableEndemicSpecies |-> <<"0">>,
          endangeredEndemicSpecies |-> <<"0">>,
          criticallyEndangeredEndemicSpecies |-> <<"0">>],
         [isoNum |-> Str276, totalEndemicSpecies |-> <<"6", "0">>,
          nearThreatenedEndemicSpecies |-> <<"1">>,
          endangeredEndemicSpecies |-> <<"2">>] >> }

GdpBodies ==
    { << [isoNum |-> Str76, gdpUSD |-> <<"2", "0">>, gdpYear |-> Y2020],
         [isoNum |-> Str250, gdpUSD |-> <<"3", "0">>, gdpYear |-> Y2018],
         [isoNum |-> Str276, gdpUSD |-> <<"4", "0">>, gdpYear |-> Y2020] >>,
      << >> }

PopulationBodies ==
    { << [isoNum |-> Str250, population |-> <<"6", "7">>, popYear |-> Y2020],
         [isoNum |-> Str276, population |-> <<"8", "3">>] >> }

(* ------------------------------------------------------ continent summary *)
\* UTF-16 code units of the characters the model's strings are made of
CharCode(c) ==
    IF IsDigit(c) THEN 48 + DigitVal(c)
    ELSE IF c = " " THEN 32 ELSE IF c = "+" THEN 43 ELSE IF c = "-" THEN 45
    ELSE IF c = "a" THEN 97 ELSE IF c = "b" THEN 98 ELSE IF c = "c" THEN 99
    ELSE 66

RECURSIVE StrLess(_, _)
\* a < b in the order Array.prototype.sort uses without a comparator
StrLess(a, b) ==
    IF b = <<>> THEN FALSE
    ELSE IF a = <<>> THEN TRUE
    ELSE IF CharCode(Head(a)) # CharCode(Head(b))
         THEN CharCode(Head(a)) < CharCode(Head(b))
    ELSE StrLess(Tail(a), Tail(b))

\* a piece of text: a fixed prefix followed by up to two strings (the two
\* are joined by an en dash when both are there)
Text(prefix, lo, hi) == [prefix |-> prefix, lo |-> lo, hi |-> hi]

NoText == Text("", <<>>, <<>>)

\* arr[0] and arr[arr.length - 1] of Array.from(set).sort()
SortedFirst(set) == CHOOSE y \in set : \A z \in set : ~StrLess(z, y)

\* slip: arr[0] where arr[arr.length - 1] belongs
SortedLast_first(set) == CHOOSE y \in set : \A z \in set : ~StrLess(z, y)

SortedLast(set) == CHOOSE y \in set : \A z \in set : ~StrLess(y, z)

formatYearNote(set) ==
    IF set = {} THEN NoText
    ELSE IF Cardinality(set) = 1 THEN Text("Latest year: ", SortedFirst(set), <<>>)
    ELSE Text("Latest years: ", SortedFirst(set), SortedLast(set))

\* formatYearLabel: '' for an empty value, the value itself when it is
\* already a note, otherwise "Year: " and the value
formatYearLabel(value) ==
    IF value = NoText THEN NoText
    ELSE IF value.prefix # "" THEN value
    ELSE Text("Year: ", value.lo, <<>>)

\* slip: the endemic count starts at one
ZeroSummary_countsFromOne(n) ==
    [totalCountries |-> n, endemicCount |-> 1, gdpCount |-> 0, popCount |-> 0,
     totalEndemic |-> 0, threatened |-> 0, nt |-> 0, vu |-> 0, en |-> 0, cr |-> 0,
     gdpUSD |-> 0, population |-> 0, gdpYears |-> {}, popYears |-> {}]

ZeroSummary(n) ==
    [totalCountries |-> n, endemicCount |-> 0, gdpCount |-> 0, popCount |-> 0,
     totalEndemic |-> 0, threatened |-> 0, nt |-> 0, vu |-> 0, en |-> 0, cr |-> 0,
     gdpUSD |-> 0, population |-> 0, gdpYears |-> {}, popYears |-> {}]

\* one turn of the loop of summarizeContinent for the member iso
SummaryStep(s, iso, eT, gT, pT) ==
    LET s1 == IF iso \in DOMAIN eT
              THEN LET eRow == eT[iso]
                       nt == OrZero(eRow.nearThreatenedEndemicSpecies)
                       vu == OrZero(eRow.vulnerableEndemicSpecies)
                       en == OrZero(eRow.endangeredEndemicSpecies)
                       cr == OrZero(eRow.criticallyEndangeredEndemicSpecies)
                   IN [s EXCEPT !.endemicCount = @ + 1,
                                !.totalEndemic = @ + OrZero(eRow.totalEndemicSpecies),
                                !.nt = @ + nt, !.vu = @ + vu,
                                !.en = @ + en, !.cr = @ + cr,
                                !.threatened = @ + nt + vu + en + cr]
              ELSE s
        s2 == IF iso \in DOMAIN gT
              THEN [s1 EXCEPT !.gdpCount = @ + 1,
                              !.gdpUSD = @ + OrZero(gT[iso].gdpUSD),
                              !.gdpYears = IF gT[iso].gdpYear # <<>>
                                           THEN @ \cup {gT[iso].gdpYear} ELSE @]
              ELSE s1
    IN IF iso \in DOMAIN pT
       THEN [s2 EXCEPT !.popCount = @ + 1,
                       !.population = @ + OrZero(pT[iso].population),
                       !.popYears = IF pT[iso].popYear # <<>>
                                    THEN @ \cup {pT[iso].popYear} ELSE @]
       ELSE s2

RECURSIVE SummaryLoop(_, _, _, _, _)
SummaryLoop(s, list, eT, gT, pT) ==
    IF list = <<>> THEN s
    ELSE LET iso == ParseInt(Head(list).id)
         IN IF ~IsFinite(iso) THEN SummaryLoop(s, Tail(list), eT, gT, pT)
            ELSE SummaryLoop(SummaryStep(s, iso, eT, gT, pT), Tail(list), eT, gT, pT)

\* summarizeContinent(name) over the membership byCont and the three maps
\* (an unloaded table is the empty map: endemicTable?.get(iso) is undefined)
summarizeContinent(name, byCont, eT, gT, pT) ==
    LET list == IF name \in DOMAIN byCont THEN byCont[name] ELSE <<>>
        s == SummaryLoop(ZeroSummary(Len(list)), list, eT, gT, pT)
    IN [totalCountries |-> s.totalCountries, endemicCount |-> s.endemicCount,
        gdpCount |-> s.gdpCount, popCount |-> s.popCount,
        totalEndemic |-> s.totalEndemic, threatened |-> s.threatened,
        nt |-> s.nt, vu |-> s.vu, en |-> s.en, cr |-> s.cr,
        gdpUSD |-> s.gdpUSD, population |-> s.population,
        gdpYears |-> s.gdpYears, popYears |-> s.popYears,
        gdpYearNote |-> formatYearNote(s.gdpYears),
        popYearNote |-> formatYearNote(s.popYears)]

(* ---------------------------------------------------------- the side panel *)
\* The page is a record of the texts and flags the handlers write.  A value
\* cell shows a dash, a number, or the words "Request failed".
Dash == [kind |-> "dash", v |-> 0]

Num(n) == [kind |-> "num", v |-> n]

FailedCell == [kind |-> "failed", v |-> 0]

\* a status line: its text (msg, with a count n where the text carries one)
\* and whether it has the class 'err'
Status(msg, n, err) == [msg |-> msg, n |-> n, err |-> err]

\* the text of #dataContext: a template and the numbers put into it
Context(msg, n, m, name) == [msg |-> msg, n |-> n, m |-> m, name |-> name]

RECURSIVE DigitsOf(_)
DigitsOf(n) ==
    IF n < 10 THEN <<Digits[n + 1]>> ELSE Append(DigitsOf(n \div 10), Digits[(n % 10) + 1])

\* String(n) for an integer
NumToStr(n) == IF n < 0 THEN <<"-">> \o DigitsOf(0 - n) ELSE DigitsOf(n)

\* slip: the argument ignored
showLoading_alwaysOn(d, on) == [d EXCEPT !.loading = TRUE]

showLoading(d, on) == [d EXCEPT !.loading = on]

setPanelMode(d, text) == [d EXCEPT !.panelMode = text]

\* setTitle(text): text || 'Select a continent'
setTitle(d, text) ==
    [d EXCEPT !.title = IF text = NoText THEN Text("Select a continent", <<>>, <<>>)
                        ELSE text]

toggleBackButton(d, active) == [d EXCEPT !.backDisabled = ~active]

setStatuses(d, endemicMsg, gdpMsg, popMsg) ==
    [d EXCEPT !.endemicStatus = Status(endemicMsg.msg, endemicMsg.n, FALSE),
              !.gdpStatus = Status(gdpMsg.msg, gdpMsg.n, FALSE),
              !.popStatus = Status(popMsg.msg, popMsg.n, FALSE)]

setAllStatuses(d, message) ==
    [d EXCEPT !.endemicStatus = Status(message, 0, TRUE),
              !.gdpStatus = Status(message, 0, TRUE),
              !.popStatus = Status(message, 0, TRUE)]

\* setEndemic / setGDP / setPopulation for each payload status
setEndemic(d, res) ==
    IF res.status = "ok"
    THEN [d EXCEPT !.totalEndemic = Num(res.totalEndemicSpecies),
                   !.endangeredEndemic =
                       Num(OrZero(res.nearThreatened) + OrZero(res.vulnerable)
                           + OrZero(res.endangered) + OrZero(res.criticallyEndangered))]
    ELSE IF res.status = "error"
    THEN [d EXCEPT !.totalEndemic = FailedCell, !.endangeredEndemic = FailedCell]
    ELSE [d EXCEPT !.totalEndemic = Dash, !.endangeredEndemic = Dash]

\* slip: a payload without data shown as the number 0
setGDP_emptyAsZero(d, res) ==
    IF res.status = "ok"
    THEN [d EXCEPT !.gdp = Num(res.gdpUSD), !.gdpYear = formatYearLabel(res.gdpYear)]
    ELSE IF res.status = "error"
    THEN [d EXCEPT !.gdp = FailedCell, !.gdpYear = NoText]
    ELSE [d EXCEPT !.gdp = Num(0), !.gdpYear = NoText]

setGDP(d, res) ==
    IF res.status = "ok"
    THEN [d EXCEPT !.gdp = Num(res.gdpUSD), !.gdpYear = formatYearLabel(res.gdpYear)]
    ELSE IF res.status = "error"
    THEN [d EXCEPT !.gdp = FailedCell, !.gdpYear = NoText]
    ELSE [d EXCEPT !.gdp = Dash, !.gdpYear = NoText]

setPopulation(d, res) ==
    IF res.status = "ok"
    THEN [d EXCEPT !.population = Num(res.population),
                   !.popYear = formatYearLabel(res.popYear)]
    ELSE IF res.status = "error"
    THEN [d EXCEPT !.population = FailedCell, !.popYear = NoText]
    ELSE [d EXCEPT !.population = Dash, !.popYear = NoText]

EmptyResult == [status |-> "empty"]

\* the status line each apply*Result leaves for a payload status
ResultStatus(status) ==
    IF status = "empty" THEN Status("No data", 0, FALSE)
    ELSE IF status = "error" THEN Status("Request failed", 0, TRUE)
    ELSE Status("", 0, FALSE)

applyEndemicResult(d, res) ==
    [setEndemic(d, res) EXCEPT !.endemicStatus = ResultStatus(res.status)]

applyGdpResult(d, res) ==
    [setGDP(d, res) EXCEPT !.gdpStatus = ResultStatus(res.status)]

\* slip: a population of 0 taken for a missing one
applyPopResult_zeroAsEmpty(d, res) ==
    LET r == IF res.status = "ok" /\ res.population = 0 THEN EmptyResult ELSE res
    IN [setPopulation(d, r) EXCEPT !.popStatus = ResultStatus(r.status)]

applyPopResult(d, res) ==
    [setPopulation(d, res) EXCEPT !.popStatus = ResultStatus(res.status)]

NoResult == [status |-> "none"]

NoMsg == [msg |-> "", n |-> 0]

clearPanel(d) ==
    setStatuses(setPopulation(setGDP(setEndemic(d, NoResult), NoResult), NoResult),
                NoMsg, NoMsg, NoMsg)

applyContinentSummary(d, summary, name) ==
    LET d0 == setTitle(d, Text(name, <<>>, <<>>))
        d1 == applyEndemicResult(d0,
                  IF summary.endemicCount # 0
                  THEN [status |-> "ok", totalEndemicSpecies |-> summary.totalEndemic,
                        nearThreatened |-> summary.nt, vulnerable |-> summary.vu,
                        endangered |-> summary.en,
                        criticallyEndangered |-> summary.cr]
                  ELSE EmptyResult)
        d2 == applyGdpResult(d1,
                  IF summary.gdpCount # 0
                  THEN [status |-> "ok", gdpUSD |-> summary.gdpUSD,
                        gdpYear |-> summary.gdpYearNote]
                  ELSE EmptyResult)
        d3 == applyPopResult(d2,
                  IF summary.popCount # 0
                  THEN [status |-> "ok", population |-> summary.population,
                        popYear |-> summary.popYearNote]
                  ELSE EmptyResult)
        endemicMsg == IF summary.endemicCount # 0
                      THEN [msg |-> "Countries with endemic data: ",
                            n |-> summary.endemicCount]
                      ELSE [msg |-> "No data", n |-> 0]
        gdpMsg == IF summary.gdpCount # 0
                  THEN [msg |-> "Countries with GDP data: ", n |-> summary.gdpCount]
                  ELSE [msg |-> "No data", n |-> 0]
        popMsg == IF summary.popCount # 0
                  THEN [msg |-> "Countries with population data: ",
                        n |-> summary.popCount]
                  ELSE [msg |-> "No data", n |-> 0]
    IN IF summary.totalCountries = 0
       THEN [clearPanel(d0) EXCEPT !.dataContext =
                Context("No linked countries found for this continent yet.", 0, 0, "")]
       ELSE [setStatuses(d3, endemicMsg, gdpMsg, popMsg) EXCEPT !.dataContext =
                Context("Aggregated from N countries (M with endemic data). Select a highlighted country within NAME to drill down.",
                        summary.totalCountries, summary.endemicCount, name)]

\* the first truthy of the three labels, the basemap name, "ISO numeric n"
CountryTitle(feature, iso, eT, gT, pT) ==
    IF iso \in DOMAIN eT /\ eT[iso].countryLabel # <<>>
    THEN Text("", eT[iso].countryLabel, <<>>)
    ELSE IF iso \in DOMAIN gT /\ gT[iso].countryLabel # <<>>
    THEN Text("", gT[iso].countryLabel, <<>>)
    ELSE IF iso \in DOMAIN pT /\ pT[iso].countryLabel # <<>>
    THEN Text("", pT[iso].countryLabel, <<>>)
    ELSE IF feature.name # Null /\ feature.name # ""
    THEN Text(feature.name, <<>>, <<>>)
    ELSE Text("ISO numeric ", NumToStr(iso), <<>>)

\* a raw year string as a piece of text
RawYear(y) == Text("", y, <<>>)

hydrateCountryPanel(d, feature, eT, gT, pT, error) ==
    LET isoNumeric == ParseInt(feature.id)
        d0 == setTitle(d, CountryTitle(feature, isoNumeric, eT, gT, pT))
        d1 == applyEndemicResult(d0,
                  IF isoNumeric \in DOMAIN eT
                  THEN LET endemicRow == eT[isoNumeric]
                       IN [status |-> "ok",
                           totalEndemicSpecies |-> endemicRow.totalEndemicSpecies,
                           nearThreatened |-> endemicRow.nearThreatenedEndemicSpecies,
                           vulnerable |-> endemicRow.vulnerableEndemicSpecies,
                           endangered |-> endemicRow.endangeredEndemicSpecies,
                           criticallyEndangered |->
                               endemicRow.criticallyEndangeredEndemicSpecies]
                  ELSE EmptyResult)
        d2 == applyGdpResult(d1,
                  IF isoNumeric \in DOMAIN gT
                  THEN [status |-> "ok", gdpUSD |-> gT[isoNumeric].gdpUSD,
                        gdpYear |-> RawYear(gT[isoNumeric].gdpYear)]
                  ELSE EmptyResult)
        d3 == applyPopResult(d2,
                  IF isoNumeric \in DOMAIN pT
                  THEN [status |-> "ok", population |-> pT[isoNumeric].population,
                        popYear |-> RawYear(pT[isoNumeric].popYear)]
                  ELSE EmptyResult)
    IN IF ~IsFinite(isoNumeric) THEN d
       ELSE IF error # Null THEN setAllStatuses(d0, "Request failed: unexpected error.")
       ELSE setStatuses(d3, NoMsg, NoMsg, NoMsg)

Queries == <<"Q_END_EMD", "Q_GDP", "Q_POP">>

Bodies(q) ==
    IF q = 1 THEN EndemicBodies ELSE IF q = 2 THEN GdpBodies ELSE PopulationBodies

\* how one request can settle: an HTTP status, or a rejection of fetch
Statuses == {200, 429, 403, 503, 500, 404}

\* new Error(`QLever error ${res.status}`)
StatusError(status) ==
    IF status = 429 THEN "QLever error 429" ELSE IF status = 403 THEN "QLever error 403"
    ELSE IF status = 503 THEN "QLever error 503" ELSE IF status = 500 THEN "QLever error 500"
    ELSE "QLever error 404"

(* ------------------------------------------------------------- the state *)
(* ------------------------------------------- the F_ST widget (script.js) *)
\* In the texts of the panel "--" stands for the character U+2014 and "-"
\* between two numbers for U+2013; "undefined" is a property that is not
\* there, which is also the key it is read as.
countryToSuperPop ==
    [BRA |-> "AMR", ARG |-> "AMR", COL |-> "AMR", PER |-> "AMR", MEX |-> "AMR",
     CAN |-> "AMR", USA |-> "AMR", CHL |-> "AMR",
     PRT |-> "EUR", ESP |-> "EUR", FRA |-> "EUR", DEU |-> "EUR", ITA |-> "EUR",
     GBR |-> "EUR", NLD |-> "EUR", SWE |-> "EUR",
     NGA |-> "AFR", GHA |-> "AFR", ZAF |-> "AFR", KEN |-> "AFR", EGY |-> "AFR",
     ETH |-> "AFR",
     CHN |-> "EAS", JPN |-> "EAS", KOR |-> "EAS", VNM |-> "EAS", THA |-> "EAS",
     IND |-> "SAS", PAK |-> "SAS", BGD |-> "SAS", LKA |-> "SAS", NPL |-> "SAS"]

\* the estimates in hundredths
fstMatrix ==
    [AFR |-> [AFR |-> 1, AMR |-> 10, EAS |-> 15, EUR |-> 12, SAS |-> 12],
     AMR |-> [AFR |-> 10, AMR |-> 2, EAS |-> 7, EUR |-> 5, SAS |-> 6],
     EAS |-> [AFR |-> 15, AMR |-> 7, EAS |-> 1, EUR |-> 9, SAS |-> 8],
     EUR |-> [AFR |-> 12, AMR |-> 5, EAS |-> 9, EUR |-> 1, SAS |-> 7],
     SAS |-> [AFR |-> 12, AMR |-> 6, EAS |-> 8, EUR |-> 7, SAS |-> 1]]

\* fstPretty(v, same): v is [defined, hundredths], undefined or an estimate
\* below 1, whose toFixed(2) is "0." and its two digits
fstPretty(v, same) ==
    IF ~v.defined THEN "--"
    ELSE IF same THEN "0.00-0.02"
    ELSE "0." \o Digits[(v.hundredths \div 10) + 1] \o Digits[(v.hundredths % 10) + 1]

superPop(iso3) ==
    IF iso3 \in DOMAIN countryToSuperPop THEN countryToSuperPop[iso3] ELSE Null

\* selA / selB = null
NoSel == [present |-> FALSE, el |-> 0, iso3 |-> "undefined", name |-> "", sp |-> Null]

\* updatePanel() on the page d with selA = a and selB = b
updatePanel(d, a, b) ==
    LET same == a.sp = b.sp
        \* (fstMatrix[a.sp] || {})[b.sp]
        v == IF a.sp \in DOMAIN fstMatrix /\ b.sp \in DOMAIN fstMatrix[a.sp]
             THEN [defined |-> TRUE, hundredths |-> fstMatrix[a.sp][b.sp]]
             ELSE [defined |-> FALSE, hundredths |-> 0]
        \* !v
        falsy == ~v.defined \/ v.hundredths = 0
    IN [d EXCEPT
          !.aName = IF a.present THEN a.name ELSE "--",
          !.bName = IF b.present THEN b.name ELSE "--",
          !.aPop = IF a.present THEN (IF a.sp # Null THEN a.sp ELSE "--") ELSE "",
          !.bPop = IF b.present THEN (IF b.sp # Null THEN b.sp ELSE "--") ELSE "",
          !.fst = IF a.present /\ b.present THEN fstPretty(v, same) ELSE "--",
          !.explain =
              IF a.present /\ b.present
              THEN IF falsy /\ ~same
                   THEN "No estimate available for this pair yet."
                   ELSE IF same
                   THEN "Both map to the same super-population; typical within-continent FST is very low."
                   ELSE "Different super-populations; between-continent FST is typically around 0.10-0.15. Panel-level estimate, not individual."
              ELSE ""]

\* new Map(names.map(r => [+r.id, {iso3: r.iso3||r.iso_a3, name: r.name}]))
\* for these rows of world-country-names.csv; the last has no iso3
metaById ==
    LET names ==
            << [id |-> <<"7", "6">>, iso3 |-> "BRA", name |-> "Brazil"],
               [id |-> <<"2", "5", "0">>, iso3 |-> "FRA", name |-> "France"],
               [id |-> <<"2", "7", "6">>, iso3 |-> "DEU", name |-> "Germany"],
               [id |-> <<"5", "6", "6">>, iso3 |-> "NGA", name |-> "Nigeria"],
               [id |-> <<"1", "5", "6">>, iso3 |-> "CHN", name |-> "China"],
               [id |-> <<"3", "5", "6">>, iso3 |-> "IND", name |-> "India"],
               [id |-> <<"3", "6">>, iso3 |-> "AUS", name |-> "Australia"],
               [id |-> <<"1", "0">>, name |-> "Antarctica"] >>
        iso3(r) == IF "iso3" \in DOMAIN r /\ r.iso3 # "" THEN r.iso3
                   ELSE IF "iso_a3" \in DOMAIN r /\ r.iso_a3 # "" THEN r.iso_a3
                   ELSE "undefined"
        \* the last row of a key is the one the Map keeps
        last(k) == names[CHOOSE i \in 1..Len(names) :
                            /\ ToNumber(names[i].id) = k
                            /\ \A j \in 1..Len(names) :
                                  ToNumber(names[j].id) = k => j <= i]
    IN [k \in {ToNumber(names[i].id) : i \in 1..Len(names)} |->
           [iso3 |-> iso3(last(k)), name |-> last(k).name]]

\* the ids of the features of countries-110m.json, as text; the last has no
\* row in the names
FeatureIds ==
    << <<"0", "7", "6">>, <<"2", "5", "0">>, <<"2", "7", "6">>, <<"5", "6", "6">>,
       <<"1", "5", "6">>, <<"3", "5", "6">>, <<"0", "3", "6">>, <<"0", "1", "0">>,
       <<"-", "9", "9">> >>

\* slip: a new pair started only when nothing is selected
StartsPair_onlyWhenEmpty(a, b) == ~a.present

\* !selA || (selA && selB)
StartsPair(a, b) == ~a.present \/ (a.present /\ b.present)

VARIABLES
    endemicTable,          \* [ref, map]; ref 0 is null, else the Map object built
    gdpTable,
    populationTable,
    preloadError,          \* Null or the remembered error
    continentByCountryId,  \* feature id -> continent name
    countriesByContinent,  \* continent name -> its country features
    state,                 \* [continentName, countryId]
    inFlight,
    call,                  \* per activation: where its async handler stands
    dom,                   \* the page: spinner, Back button, title, panel
    clicks,                \* clicks that passed the guards so far
    lastEvent,             \* the kind of the step just taken
    netSent,               \* requests the step just taken issued
    lastRun,               \* how the runSparqlGETWithRetry that ended in the step
                           \* just taken went (NoRun when none ended in it)
    arg,                   \* a function studied on its own: what it is called with
    res,                   \* and what it returned ([op |-> "none"] before the call)
    selA,                  \* script.js: the first country of the pair
    selB,                  \* script.js: the second
    fstDom                 \* script.js: the panel and the classes of the paths

vars == <<endemicTable, gdpTable, populationTable, preloadError,
          continentByCountryId, countriesByContinent, state, inFlight, call, dom,
          clicks, lastEvent, netSent, lastRun, arg, res, selA, selB, fstDom>>

\* the variables of the page itself
pageVars == <<endemicTable, gdpTable, populationTable, preloadError,
              continentByCountryId, countriesByContinent, state, inFlight, call,
              dom, clicks, lastEvent, netSent, lastRun>>

H == 1..MaxHandlers

NullTable == [ref |-> 0, map |-> EmptyMap]

NoFeature == [present |-> FALSE, id |-> <<>>, name |-> Null]

IdleCall ==
    [pc |-> "idle", kind |-> "none", feature |-> NoFeature, contName |-> Null,
     q |-> 0, attempt |-> 0, issued |-> 0, elapsed |-> 0,
     onlyRetryable |-> TRUE, sawFatal |-> FALSE]

NoRun == [q |-> 0, result |-> "none", issued |-> 0, onlyRetryable |-> FALSE,
          sawFatal |-> FALSE]

\* the page as map.html ships it and boot() leaves it (clearPanel)
InitDom(backDisabled) ==
    clearPanel([loading |-> FALSE, backDisabled |-> backDisabled,
                title |-> Text("Select a continent", <<>>, <<>>),
                panelMode |-> "Continent overview",
                dataContext |-> Context("Select a continent to see aggregated totals.",
                                        0, 0, ""),
                endemicStatus |-> Status("", 0, FALSE),
                gdpStatus |-> Status("", 0, FALSE),
                popStatus |-> Status("", 0, FALSE),
                totalEndemic |-> Dash, endangeredEndemic |-> Dash,
                gdp |-> Dash, gdpYear |-> NoText,
                population |-> Dash, popYear |-> NoText])

NoArg == <<>>

NoRes == [op |-> "none"]

\* the page once the script has run and boot() has drawn the map
Boot ==
    /\ endemicTable = NullTable
    /\ gdpTable = NullTable
    /\ populationTable = NullTable
    /\ preloadError = Null
    /\ continentByCountryId = assignContinents.byId
    /\ countriesByContinent = assignContinents.byCont
    /\ state = [continentName |-> Null, countryId |-> NullId]
    /\ inFlight = FALSE
    /\ selA = NoSel
    /\ selB = NoSel
    \* script.js writes nothing to the panel before the first click
    /\ fstDom = [aName |-> "(markup)", bName |-> "(markup)", aPop |-> "(markup)",
                 bPop |-> "(markup)", fst |-> "(markup)", explain |-> "(markup)",
                 selectedA |-> {}, selectedB |-> {}]
    /\ call = [h \in H |-> IdleCall]
    /\ \E b \in BOOLEAN : dom = InitDom(b)
    /\ clicks = 0
    /\ lastEvent = "boot"
    /\ netSent = 0
    /\ lastRun = NoRun

Init == Boot /\ arg = NoArg /\ res = NoRes

(* ------------------------------------------------- conditions of the code *)
\* slip: the last conjunct negated
TablesReady_negatedLast(eT, gT, pT) == eT.ref # 0 /\ gT.ref # 0 /\ pT.ref = 0

\* ensureDataReady: if (endemicTable && gdpTable && populationTable) return
TablesReady(eT, gT, pT) == eT.ref # 0 /\ gT.ref # 0 /\ pT.ref # 0

\* slip: the check left out
RethrowRemembered_dropped(error) == FALSE

\* slip: the check inverted
RethrowRemembered_inverted(error) == error = Null

\* the handlers: if (preloadError) throw preloadError
RethrowRemembered(error) == error # Null

\* res.status === 429 || res.status === 403 || res.status === 503
RetryableStatus(status) == status \in {429, 403, 503}

\* slip: the budget taken from a larger default
BudgetLeft_largerBudget(attempt) == attempt < Retries + 2

\* slip: off by one
BudgetLeft_offByOne(attempt) == attempt <= Retries

\* attempt < retries
BudgetLeft(attempt) == attempt < Retries

\* slip: the inFlight test left out
ContinentGuard_noBusy(feature, busy) == feature.present

\* handleContinentClick: if (!feature || inFlight) return
ContinentGuard(feature, busy) == feature.present /\ ~busy

\* slip: the comparison with the selected continent left out
CountryGuard_anyContinent(feature, busy, continentName, byId) ==
    /\ feature.present /\ continentName # Null /\ ~busy
    /\ feature.id \in DOMAIN byId

\* handleCountryClick: the two early returns
CountryGuard(feature, busy, continentName, byId) ==
    /\ feature.present /\ continentName # Null /\ ~busy
    /\ feature.id \in DOMAIN byId
    /\ byId[feature.id] = continentName

\* a new Map object: a reference no earlier value of the variable had
NewTable(old, map) == [ref |-> old.ref + 1, map |-> map]

\* the activation a click that passes its guard runs in
FreeSlot == CHOOSE h \in H : call[h].pc = "idle" /\ \A g \in H : call[g].pc = "idle" => h <= g

(* ------------------------------------------------ the end of a handler *)
\* slip: the selection assigned before the await, so on failure too
Finish_selectsBeforeLoad(h, c, d, thrown, eT, gT, pT, error) ==
    LET failed == thrown # Null \/ RethrowRemembered(error)
        summary == summarizeContinent(c.contName, countriesByContinent,
                                      eT.map, gT.map, pT.map)
    IN /\ inFlight' = FALSE
       /\ call' = [call EXCEPT ![h] = IdleCall]
       /\ IF c.kind = "continent"
          THEN IF failed
               THEN /\ state' = [continentName |-> c.contName, countryId |-> NullId]
                    /\ dom' = showLoading(
                           [setAllStatuses(d, "Request failed: unexpected error.")
                               EXCEPT !.dataContext = Context(
                                   "Unable to load continent aggregates right now.",
                                   0, 0, "")], FALSE)
                    /\ lastEvent' = "continentFailed"
               ELSE /\ state' = [continentName |-> c.contName, countryId |-> NullId]
                    /\ dom' = showLoading(
                                  applyContinentSummary(d, summary, c.contName), FALSE)
                    /\ lastEvent' = "continentShown"
          ELSE IF failed
               THEN /\ state' = state
                    /\ dom' = showLoading(
                           setAllStatuses(d, "Request failed: unexpected error."),
                           FALSE)
                    /\ lastEvent' = "countryFailed"
               ELSE /\ state' = [state EXCEPT !.countryId = ParseInt(c.feature.id)]
                    /\ dom' = showLoading(
                           [setPanelMode(
                                hydrateCountryPanel(d, c.feature, eT.map, gT.map,
                                                    pT.map, error),
                                "Country profile")
                               EXCEPT !.dataContext = Context(
                                   "Country-level figures pulled directly from cached Wikidata tables.",
                                   0, 0, "")], FALSE)
                    /\ lastEvent' = "countryShown"

\* The rest of handleContinentClick / handleCountryClick once the await of
\* ensureDataReady settles: thrown is what ensureDataReady threw (Null when
\* it returned); eT, gT, pT, error are the tables and preloadError by then.
\* c is the activation, d the page as the handler has left it so far.
\* It runs to the end of the finally block without another macrotask.
Finish(h, c, d, thrown, eT, gT, pT, error) ==
    LET failed == thrown # Null \/ RethrowRemembered(error)
        summary == summarizeContinent(c.contName, countriesByContinent,
                                      eT.map, gT.map, pT.map)
    IN /\ inFlight' = FALSE
       /\ call' = [call EXCEPT ![h] = IdleCall]
       /\ IF c.kind = "continent"
          THEN IF failed
               THEN /\ state' = state
                    /\ dom' = showLoading(
                           [setAllStatuses(d, "Request failed: unexpected error.")
                               EXCEPT !.dataContext = Context(
                                   "Unable to load continent aggregates right now.",
                                   0, 0, "")], FALSE)
                    /\ lastEvent' = "continentFailed"
               ELSE /\ state' = [continentName |-> c.contName, countryId |-> NullId]
                    /\ dom' = showLoading(
                                  applyContinentSummary(d, summary, c.contName), FALSE)
                    /\ lastEvent' = "continentShown"
          ELSE IF failed
               THEN /\ state' = state
                    /\ dom' = showLoading(
                           setAllStatuses(d, "Request failed: unexpected error."),
                           FALSE)
                    /\ lastEvent' = "countryFailed"
               ELSE /\ state' = [state EXCEPT !.countryId = ParseInt(c.feature.id)]
                    /\ dom' = showLoading(
                           [setPanelMode(
                                hydrateCountryPanel(d, c.feature, eT.map, gT.map,
                                                    pT.map, error),
                                "Country profile")
                               EXCEPT !.dataContext = Context(
                                   "Country-level figures pulled directly from cached Wikidata tables.",
                                   0, 0, "")], FALSE)
                    /\ lastEvent' = "countryShown"

\* slip: the population query sent where the GDP query belongs
FirstRequest_wrongQuery(c, q) ==
    [c EXCEPT !.pc = "fetch", !.q = IF q = 2 THEN 3 ELSE q, !.attempt = 0,
              !.issued = 1, !.elapsed = 0, !.onlyRetryable = TRUE, !.sawFatal = FALSE]

\* runSparqlGETWithRetry(query) up to its first await: attempt = 0 and the
\* first fetch is out
FirstRequest(c, q) ==
    [c EXCEPT !.pc = "fetch", !.q = q, !.attempt = 0, !.issued = 1, !.elapsed = 0,
              !.onlyRetryable = TRUE, !.sawFatal = FALSE]

\* the record of a runSparqlGETWithRetry that has just ended
RunOf(c, result) ==
    [q |-> c.q, result |-> result, issued |-> c.issued,
     onlyRetryable |-> c.onlyRetryable, sawFatal |-> c.sawFatal]

(* ---------------------------------------------------------------- clicks *)
\* slip: ensureDataReady without its early return, so every click loads
Demand_alwaysLoads(h, c, d) ==
    /\ UNCHANGED <<endemicTable, gdpTable, populationTable, preloadError,
                   continentByCountryId, countriesByContinent>>
    /\ lastRun' = NoRun
    /\ UNCHANGED <<arg, res, selA, selB, fstDom>>
    /\ clicks' = clicks + 1
    /\ inFlight' = TRUE
    /\ call' = [call EXCEPT ![h] = FirstRequest(c, 1)]
    /\ dom' = d
    /\ state' = state
    /\ netSent' = 1
    /\ lastEvent' = "loadStarted"

\* ensureDataReady as called by a handler whose activation is c and which
\* has left the page as d: it returns at once when the tables are there,
\* else preloadAllTables sends the first query and the handler is suspended
Demand(h, c, d) ==
    /\ UNCHANGED <<endemicTable, gdpTable, populationTable, preloadError,
                   continentByCountryId, countriesByContinent>>
    /\ lastRun' = NoRun
    /\ UNCHANGED <<arg, res, selA, selB, fstDom>>
    /\ clicks' = clicks + 1
    /\ IF TablesReady(endemicTable, gdpTable, populationTable)
       THEN /\ Finish(h, c, d, Null, endemicTable, gdpTable, populationTable,
                      preloadError)
            /\ netSent' = 0
       ELSE /\ inFlight' = TRUE
            /\ call' = [call EXCEPT ![h] = FirstRequest(c, 1)]
            /\ dom' = d
            /\ state' = state
            /\ netSent' = 1
            /\ lastEvent' = "loadStarted"

\* a click that returns at its guard
Ignored ==
    /\ lastEvent' = "clickIgnored"
    /\ netSent' = 0
    /\ UNCHANGED <<endemicTable, gdpTable, populationTable, preloadError,
                   continentByCountryId, countriesByContinent, state, inFlight,
                   call, dom, clicks>>
    /\ lastRun' = NoRun
    /\ UNCHANGED <<arg, res, selA, selB, fstDom>>

ContinentClick(feature) ==
    IF ~ContinentGuard(feature, inFlight) THEN Ignored
    ELSE /\ clicks < MaxClicks
         /\ \E h \in H : call[h].pc = "idle"
         /\ LET contName == IF feature.name = Null \/ feature.name = ""
                            THEN "Selected continent" ELSE feature.name
                d == toggleBackButton(
                         [setTitle(setPanelMode(showLoading(dom, TRUE),
                                                "Continent overview"),
                                   Text(contName, <<>>, <<>>))
                             EXCEPT !.dataContext = Context(
                                 "Aggregating continent-wide data...", 0, 0, "")],
                         TRUE)
                c == [IdleCall EXCEPT !.kind = "continent", !.feature = feature,
                                      !.contName = contName]
            IN Demand(FreeSlot, c, d)

CountryClick(feature) ==
    IF ~CountryGuard(feature, inFlight, state.continentName, continentByCountryId)
    THEN Ignored
    ELSE /\ clicks < MaxClicks
         /\ \E h \in H : call[h].pc = "idle"
         /\ LET c == [IdleCall EXCEPT !.kind = "country", !.feature = feature]
            IN Demand(FreeSlot, c, showLoading(dom, TRUE))

\* the Back button: resetToContinents (a disabled button gets no click)
resetToContinents ==
    /\ ~dom.backDisabled
    /\ state' = [continentName |-> Null, countryId |-> NullId]
    /\ dom' = toggleBackButton(
                  clearPanel(
                      [setTitle(setPanelMode(dom, "Continent overview"),
                                Text("Select a continent", <<>>, <<>>))
                          EXCEPT !.dataContext = Context(
                              "Select a continent to see aggregated totals.",
                              0, 0, "")]),
                  FALSE)
    /\ lastEvent' = "back"
    /\ netSent' = 0
    /\ UNCHANGED <<endemicTable, gdpTable, populationTable, preloadError,
                   continentByCountryId, countriesByContinent, inFlight, call,
                   clicks>>
    /\ lastRun' = NoRun
    /\ UNCHANGED <<arg, res, selA, selB, fstDom>>

(* ------------------------------------------------- the retrying client *)
\* attempt++; await delayWithJitter(baseDelayMs, attempt); continue
Retry(h, c) ==
    /\ call' = [call EXCEPT ![h] = [c EXCEPT !.pc = "delay", !.attempt = @ + 1]]
    /\ lastEvent' = "retryScheduled"
    /\ netSent' = 0
    /\ UNCHANGED <<endemicTable, gdpTable, populationTable, preloadError,
                   continentByCountryId, countriesByContinent, state, inFlight,
                   dom, clicks>>
    /\ lastRun' = NoRun
    /\ UNCHANGED <<arg, res, selA, selB, fstDom>>

\* runSparqlGETWithRetry throws e: preloadAllTables rejects, ensureDataReady
\* remembers e and rethrows, the handler's catch and finally run
Throw(h, c, e) ==
    /\ preloadError' = e
    /\ lastRun' = RunOf(c, "threw")
    /\ UNCHANGED <<arg, res, selA, selB, fstDom>>
    /\ netSent' = 0
    /\ Finish(h, c, dom, e, endemicTable, gdpTable, populationTable, e)
    /\ UNCHANGED <<endemicTable, gdpTable, populationTable,
                   continentByCountryId, countriesByContinent, clicks>>

\* the catch block: catch (e) { if (attempt < retries) {...; continue} throw e }
Catch(h, c, e) == IF BudgetLeft(c.attempt) THEN Retry(h, c) ELSE Throw(h, c, e)

\* the request of activation h settles: with an HTTP status, or fetch rejects
FetchSettle(h, outcome) ==
    /\ call[h].pc = "fetch"
    /\ LET c == call[h]
       IN IF outcome = 0
          THEN Catch(h, [c EXCEPT !.onlyRetryable = FALSE], "TypeError: Failed to fetch")
          ELSE IF outcome = 200
          THEN /\ call' = [call EXCEPT ![h] = [c EXCEPT !.pc = "json",
                                                        !.onlyRetryable = FALSE]]
               /\ lastEvent' = "responseOk"
               /\ netSent' = 0
               /\ UNCHANGED <<endemicTable, gdpTable, populationTable, preloadError,
                              continentByCountryId, countriesByContinent, state,
                              inFlight, dom, clicks>>
               /\ lastRun' = NoRun
               /\ UNCHANGED <<arg, res, selA, selB, fstDom>>
          ELSE LET c1 == [c EXCEPT
                            !.onlyRetryable = @ /\ outcome \in {429, 403, 503},
                            !.sawFatal = @ \/ outcome \notin {429, 403, 503}]
               IN IF RetryableStatus(outcome) /\ BudgetLeft(c.attempt)
                  THEN Retry(h, c1)
                  ELSE Catch(h, c1, StatusError(outcome))

\* what the caller of runSparqlGETWithRetry does with the data returned:
\* preloadAllTables builds the table and sends the next query, and after
\* the third the handler goes on
Returned(h, c, body) ==
    /\ lastRun' = RunOf(c, "returned")
    /\ UNCHANGED <<arg, res, selA, selB, fstDom>>
    /\ UNCHANGED <<preloadError, continentByCountryId, countriesByContinent, clicks>>
    /\ IF c.q = 1
       THEN /\ endemicTable' = NewTable(endemicTable, buildEndemicMap(body))
            /\ call' = [call EXCEPT ![h] = FirstRequest(c, 2)]
            /\ netSent' = 1
            /\ lastEvent' = "tableBuilt"
            /\ UNCHANGED <<gdpTable, populationTable, state, inFlight, dom>>
       ELSE IF c.q = 2
       THEN /\ gdpTable' = NewTable(gdpTable, buildGdpMap(body))
            /\ call' = [call EXCEPT ![h] = FirstRequest(c, 3)]
            /\ netSent' = 1
            /\ lastEvent' = "tableBuilt"
            /\ UNCHANGED <<endemicTable, populationTable, state, inFlight, dom>>
       ELSE /\ populationTable' = NewTable(populationTable, buildPopulationMap(body))
            /\ netSent' = 0
            /\ UNCHANGED <<endemicTable, gdpTable>>
            /\ Finish(h, c, dom, Null, endemicTable, gdpTable,
                      NewTable(populationTable, buildPopulationMap(body)),
                      preloadError)

\* return await res.json(): the body is read and parsed, or is no JSON
JsonSettle(h, parsed) ==
    /\ call[h].pc = "json"
    /\ LET c == call[h]
       IN IF ~parsed
          THEN Catch(h, [c EXCEPT !.onlyRetryable = FALSE], "SyntaxError")
          ELSE \E body \in Bodies(c.q) : Returned(h, c, body)

\* the timer of delayWithJitter fires: the loop sends the request again
DelayDone(h) ==
    /\ call[h].pc = "delay"
    /\ call' = [call EXCEPT ![h] = [@ EXCEPT !.pc = "fetch", !.issued = @ + 1,
                                             !.elapsed = 0]]
    /\ lastEvent' = "requestSent"
    /\ netSent' = 1
    /\ UNCHANGED <<endemicTable, gdpTable, populationTable, preloadError,
                   continentByCountryId, countriesByContinent, state, inFlight,
                   dom, clicks>>
    /\ lastRun' = NoRun
    /\ UNCHANGED <<arg, res, selA, selB, fstDom>>

\* time passes while requests are out (nothing in map.js times them)
Tick ==
    /\ \E h \in H : call[h].pc = "fetch" /\ call[h].elapsed < MaxElapsedMs
    /\ call' = [h \in H |->
                  IF call[h].pc = "fetch" /\ call[h].elapsed < MaxElapsedMs
                  THEN [call[h] EXCEPT !.elapsed = @ + TickMs] ELSE call[h]]
    /\ lastEvent' = "tick"
    /\ netSent' = 0
    /\ UNCHANGED <<endemicTable, gdpTable, populationTable, preloadError,
                   continentByCountryId, countriesByContinent, state, inFlight,
                   dom, clicks>>
    /\ lastRun' = NoRun
    /\ UNCHANGED <<arg, res, selA, selB, fstDom>>

Next ==
    \/ \E feature \in ContinentFeatures : ContinentClick(feature)
    \/ \E feature \in CountryFeatures : CountryClick(feature)
    \/ resetToContinents
    \/ \E h \in H : \E outcome \in Statuses \cup {0} : FetchSettle(h, outcome)
    \/ \E h \in H : \E parsed \in BOOLEAN : JsonSettle(h, parsed)
    \/ \E h \in H : DelayDone(h)
    \/ Tick

Spec == Init /\ [][Next]_vars

\* A macrotask of a handler that is ready to run: the settling of the
\* request that is out, the settling of a body read, the firing of a
\* backoff timer.  A suspended handler waits for exactly one of them.
Settle ==
    \E h \in H :
        \/ \E outcome \in Statuses \cup {0} : FetchSettle(h, outcome)
        \/ \E parsed \in BOOLEAN : JsonSettle(h, parsed)
        \/ DelayDone(h)

\* The session when every request that is out settles (its response comes
\* or fetch rejects), every body read settles and every timer fires.
FairSpec == Spec /\ WF_vars(Settle)

TypeOK ==
    /\ inFlight \in BOOLEAN
    /\ clicks \in 0..MaxClicks
    /\ netSent \in {0, 1}
    /\ \A h \in H : call[h].pc \in {"idle", "fetch", "json", "delay"}

(* ------------------------------------- correlations.js: combineDataset *)
MIN_ENDEMIC == 50       \* const MIN_ENDEMIC = 50

\* slip: a total equal to the minimum dropped too
BelowMinimum_inclusive(total) == total <= MIN_ENDEMIC

\* total < MIN_ENDEMIC
BelowMinimum(total) == total < MIN_ENDEMIC

\* the row combineDataset pushes for the key isoNumeric; the fraction
\* threatened / total is held as its two terms
CombinedRow(isoNumeric, endRow, gRow, pRow) ==
    LET total == OrZero(endRow.totalEndemicSpecies)
        threatened == OrZero(endRow.nearThreatenedEndemicSpecies)
                      + OrZero(endRow.vulnerableEndemicSpecies)
                      + OrZero(endRow.endangeredEndemicSpecies)
                      + OrZero(endRow.criticallyEndangeredEndemicSpecies)
    IN [isoNumeric |-> isoNumeric,
        countryLabel |-> IF endRow.countryLabel # <<>>
                         THEN Text("", endRow.countryLabel, <<>>)
                         ELSE IF gRow.countryLabel # <<>>
                         THEN Text("", gRow.countryLabel, <<>>)
                         ELSE IF pRow.countryLabel # <<>>
                         THEN Text("", pRow.countryLabel, <<>>)
                         ELSE Text("ISO ", NumToStr(isoNumeric), <<>>),
        totalEndemic |-> total,
        threatenedEndemic |-> threatened,
        fraction |-> [num |-> threatened, den |-> total],
        gdpUSD |-> OrZero(gRow.gdpUSD),
        gdpYear |-> gRow.gdpYear,
        population |-> OrZero(pRow.population),
        popYear |-> pRow.popYear]

RECURSIVE CombineLoop(_, _, _, _, _)
\* endemicTable.forEach over the keys still to visit (taken in ascending
\* order: the model's maps do not keep the order of insertion)
CombineLoop(keys, eT, gT, pT, rows) ==
    IF keys = {} THEN rows
    ELSE LET isoNumeric == CHOOSE k \in keys : \A j \in keys : k <= j
             rest == keys \ {isoNumeric}
             total == OrZero(eT[isoNumeric].totalEndemicSpecies)
         IN IF isoNumeric \notin DOMAIN gT \/ isoNumeric \notin DOMAIN pT
            THEN CombineLoop(rest, eT, gT, pT, rows)
            ELSE IF ~IsFinite(total) \/ BelowMinimum(total) \/ total = 0
            THEN CombineLoop(rest, eT, gT, pT, rows)
            ELSE CombineLoop(rest, eT, gT, pT,
                     Append(rows, CombinedRow(isoNumeric, eT[isoNumeric],
                                              gT[isoNumeric], pT[isoNumeric])))

combineDataset(eT, gT, pT) == CombineLoop(DOMAIN eT, eT, gT, pT, << >>)

(* ------------------------------------------- the table builders alone *)
\* The three builders are pure: SpecBuild calls each of them on every
\* results.bindings of up to MaxRows rows drawn from Rows.
MaxRows == 2

\* a field the row does not carry
Absent == <<"undefined">>

\* the row that carries the fields of f that are there
MkRow(f) == [k \in {x \in DOMAIN f : f[x] # Absent} |-> f[k]]

\* what r.isoNum?.value can be: missing, empty, not a number, a code, the
\* same code with a leading zero, another code
IsoTexts == {Absent, <<>>, <<"a", "b", "c">>, Str76, <<"0", "7", "6">>, Str250}

\* what the value of a numeric field can be
NumTexts == {Absent, <<>>, <<"1", "2", "0">>, <<"0">>, <<"a", "b", "c">>}

\* a binding of any of the three queries; the rows of code "76" also carry
\* the label, the alpha-3 code, a sub-count and the years
Row(iso, v) ==
    LET more == iso = Str76
    IN MkRow([isoNum |-> iso,
              countryLabel |-> IF more THEN <<"B">> ELSE Absent,
              iso3 |-> IF more THEN <<"B", "R", "A">> ELSE Absent,
              totalEndemicSpecies |-> v,
              criticallyEndangeredEndemicSpecies |-> IF more THEN <<"5">> ELSE Absent,
              gdpUSD |-> v,
              gdpYear |-> IF more THEN Y2020 ELSE Absent,
              population |-> v,
              popYear |-> IF more THEN Y2018 ELSE Absent])

Rows == {Row(iso, v) : iso \in IsoTexts, v \in NumTexts}

RowSeqs == UNION {[1..n -> Rows] : n \in 0..MaxRows}

InitBuild == Boot /\ arg \in RowSeqs /\ res = NoRes

BuildEndemic ==
    /\ res = NoRes
    /\ res' = [op |-> "buildEndemicMap", out |-> buildEndemicMap(arg)]
    /\ UNCHANGED <<pageVars, arg, selA, selB, fstDom>>

BuildGdp ==
    /\ res = NoRes
    /\ res' = [op |-> "buildGdpMap", out |-> buildGdpMap(arg)]
    /\ UNCHANGED <<pageVars, arg, selA, selB, fstDom>>

BuildPopulation ==
    /\ res = NoRes
    /\ res' = [op |-> "buildPopulationMap", out |-> buildPopulationMap(arg)]
    /\ UNCHANGED <<pageVars, arg, selA, selB, fstDom>>

NextBuild == BuildEndemic \/ BuildGdp \/ BuildPopulation

SpecBuild == InitBuild /\ [][NextBuild]_vars

(* ------------------------------------------------ the aggregation alone *)
\* summarizeContinent with applyContinentSummary, and hydrateCountryPanel,
\* read the three tables and write the panel.  SpecAggregate runs them on
\* tables the builders make of results in which each of three countries has
\* one of six profiles, and on every continent of up to MaxMembers of the
\* basemap's countries.
MaxMembers == 3

AggIsos == <<Str76, Str250, Str276>>

AggLabels == <<<<"B">>, <<"F">>, <<"G">>>>

AggTotals == <<<<"1", "2", "0">>, <<"5", "0">>, <<"4", "9">>>>

AggGdps == <<<<"2", "0">>, <<"3", "0">>, <<"4", "0">>>>

AggPops == <<<<"6", "7">>, <<"8", "3">>, <<"9">>>>

AggYears == <<Y2020, Y2018, Y2020>>

\* profile 1: a record with values in each table; 2: a record of zeros in
\* each; 3: no record; 4: GDP value and zero population, no endemic record;
\* 5: endemic and population values, no GDP record; 6: a record with values
\* in each table whose species are counted under two statuses each
Profiles == 1..6

EndemicRows(i, p) ==
    IF p \in {1, 5}
    THEN << [isoNum |-> AggIsos[i], countryLabel |-> AggLabels[i],
             totalEndemicSpecies |-> AggTotals[i],
             nearThreatenedEndemicSpecies |-> <<"1">>,
             endangeredEndemicSpecies |-> <<"2">>,
             criticallyEndangeredEndemicSpecies |-> <<"5">>] >>
    ELSE IF p = 6
    THEN << [isoNum |-> AggIsos[i], countryLabel |-> AggLabels[i],
             totalEndemicSpecies |-> AggTotals[i],
             nearThreatenedEndemicSpecies |-> AggTotals[i],
             vulnerableEndemicSpecies |-> AggTotals[i]] >>
    ELSE IF p = 2
    THEN << [isoNum |-> AggIsos[i], totalEndemicSpecies |-> <<"0">>,
             nearThreatenedEndemicSpecies |-> <<"0">>,
             vulnerableEndemicSpecies |-> <<"0">>,
             endangeredEndemicSpecies |-> <<"0">>,
             criticallyEndangeredEndemicSpecies |-> <<"0">>] >>
    ELSE << >>

GdpRows(i, p) ==
    IF p \in {1, 4, 6}
    THEN << [isoNum |-> AggIsos[i], gdpUSD |-> AggGdps[i], gdpYear |-> AggYears[i]] >>
    ELSE IF p = 2 THEN << [isoNum |-> AggIsos[i], gdpUSD |-> <<"0">>] >>
    ELSE << >>

PopulationRows(i, p) ==
    IF p \in {1, 5, 6}
    THEN << [isoNum |-> AggIsos[i], population |-> AggPops[i],
             popYear |-> AggYears[i]] >>
    ELSE IF p \in {2, 4} THEN << [isoNum |-> AggIsos[i], population |-> <<"0">>] >>
    ELSE << >>

\* the three results for a choice pr of a profile for each country
EndemicBody(pr) ==
    EndemicRows(1, pr[1]) \o EndemicRows(2, pr[2]) \o EndemicRows(3, pr[3])

GdpBody(pr) == GdpRows(1, pr[1]) \o GdpRows(2, pr[2]) \o GdpRows(3, pr[3])

PopulationBody(pr) ==
    PopulationRows(1, pr[1]) \o PopulationRows(2, pr[2]) \o PopulationRows(3, pr[3])

RECURSIVE Pick(_, _)
\* the countries of the basemap whose index is in S, in basemap order
Pick(S, i) ==
    IF i > Len(Countries) THEN << >>
    ELSE (IF i \in S THEN <<Countries[i]>> ELSE << >>) \o Pick(S, i + 1)

\* the buckets assignContinents can make: never empty
Memberships ==
    {Pick(S, 1) : S \in {T \in SUBSET (1..Len(Countries)) :
                            T # {} /\ Cardinality(T) <= MaxMembers}}

InitAggregate ==
    /\ Boot
    /\ res = NoRes
    /\ \E pr \in [1..3 -> Profiles] : \E list \in Memberships :
          arg = [bodies |-> <<EndemicBody(pr), GdpBody(pr), PopulationBody(pr)>>,
                 name |-> "Europe",
                 byCont |-> MapSet(EmptyMap, "Europe", list),
                 endemicTable |-> buildEndemicMap(EndemicBody(pr)),
                 gdpTable |-> buildGdpMap(GdpBody(pr)),
                 populationTable |-> buildPopulationMap(PopulationBody(pr))]

\* handleContinentClick, lines 343-344
Summarize ==
    /\ res = NoRes
    /\ LET summary == summarizeContinent(arg.name, arg.byCont, arg.endemicTable,
                                         arg.gdpTable, arg.populationTable)
       IN res' = [op |-> "summarizeContinent", out |-> summary,
                  panel |-> applyContinentSummary(dom, summary, arg.name)]
    /\ UNCHANGED <<pageVars, arg, selA, selB, fstDom>>

\* handleCountryClick, line 371, for a country of the selected continent
Hydrate(feature) ==
    /\ res = NoRes
    /\ res' = [op |-> "hydrateCountryPanel", feature |-> feature,
               panel |-> hydrateCountryPanel(dom, feature, arg.endemicTable,
                                             arg.gdpTable, arg.populationTable,
                                             Null)]
    /\ UNCHANGED <<pageVars, arg, selA, selB, fstDom>>

\* initCorrelations: combineDataset on the three tables just built
Combine ==
    /\ res = NoRes
    /\ res' = [op |-> "combineDataset",
               out |-> combineDataset(arg.endemicTable, arg.gdpTable,
                                      arg.populationTable)]
    /\ UNCHANGED <<pageVars, arg, selA, selB, fstDom>>

NextAggregate ==
    \/ Summarize
    \/ Combine
    \/ \E i \in 1..Len(arg.byCont[arg.name]) : Hydrate(arg.byCont[arg.name][i])

SpecAggregate == InitAggregate /\ [][NextAggregate]_vars

(* ------------------------------------------------- the F_ST widget alone *)
\* SpecFst clicks the countries of the widget's map in every order, for a
\* topology whose feature ids are numbers and for one whose ids are strings.
InitFst == Boot /\ arg \in [numericIds : BOOLEAN] /\ res = NoRes

\* the click handler of path.country, for the element el
Click(el) ==
    LET id == FeatureIds[el]
        \* metaById.get(d.id) || {}: the keys are numbers, so an id that
        \* is a string is the key of no entry
        known == arg.numericIds /\ ToNumber(id) \in DOMAIN metaById
        iso3 == IF known THEN metaById[ToNumber(id)].iso3 ELSE "undefined"
        name == IF known THEN metaById[ToNumber(id)].name ELSE "Unknown"
        new == [present |-> TRUE, el |-> el, iso3 |-> iso3, name |-> name,
                sp |-> superPop(iso3)]
    IN /\ IF StartsPair(selA, selB)
          THEN /\ selA' = new
               /\ selB' = NoSel
               /\ fstDom' = updatePanel([fstDom EXCEPT !.selectedA = {el},
                                                       !.selectedB = {}],
                                        new, NoSel)
          ELSE /\ selB' = new
               /\ selA' = selA
               /\ fstDom' = updatePanel([fstDom EXCEPT !.selectedB = @ \cup {el}],
                                        selA, new)
       /\ res' = [op |-> "click", el |-> el]
       /\ UNCHANGED <<pageVars, arg>>

NextFst == \E el \in 1..Len(FeatureIds) : Click(el)

SpecFst == InitFst /\ [][NextFst]_vars

(* --------------------------------------------------- formatYearNote alone *)
\* SpecYears calls formatYearNote on the Set that up to MaxYears distinct
\* year strings were added to, in every order of adding them.
MaxYears == 3

Y2019 == <<"2", "0", "1", "9">>
Y2021 == <<"2", "0", "2", "1">>
Y999 == <<"9", "9", "9">>

YearTexts == {Y2018, Y2019, Y2020, Y2021, Y999}

\* the sequences of distinct years: a Set in the order of insertion
YearSeqs ==
    {q \in UNION {[1..n -> YearTexts] : n \in 0..MaxYears} :
        \A i, j \in 1..Len(q) : i # j => q[i] # q[j]}

\* the elements of a Set
Elements(q) == {q[i] : i \in 1..Len(q)}

InitYears == Boot /\ arg \in YearSeqs /\ res = NoRes

FormatYears ==
    /\ res = NoRes
    /\ res' = [op |-> "formatYearNote", out |-> formatYearNote(Elements(arg))]
    /\ UNCHANGED <<pageVars, arg, selA, selB, fstDom>>

NextYears == FormatYears

SpecYears == InitYears /\ [][NextYears]_vars

(* --------------------------------------------------- delayWithJitter alone *)
DelayCapMs == 800       \* Math.min(800, base * attempt)
JitterMs == 400         \* Math.random() * 400

Min(a, b) == IF a <= b THEN a ELSE b

\* slip: the cap left out
delayWithJitter_noCap(base, attempt, jitter) == base * attempt + jitter

\* the wait of delayWithJitter(base, attempt) when Math.random() * 400 is
\* jitter (taken to the millisecond, as the timer takes it)
delayWithJitter(base, attempt, jitter) == Min(DelayCapMs, base * attempt) + jitter

\* every retry of runSparqlGETWithRetry: attempt is 1..retries when the
\* delay is asked for, and the jitter is anything from 0 up to 400
InitDelay ==
    /\ Boot
    /\ res = NoRes
    /\ \E n \in 1..Retries : \E j \in 0..(JitterMs - 1) :
          arg = [base |-> BaseDelayMs, attempt |-> n, jitter |-> j]

Delay ==
    /\ res = NoRes
    /\ res' = [op |-> "delayWithJitter",
               out |-> delayWithJitter(arg.base, arg.attempt, arg.jitter)]
    /\ UNCHANGED <<pageVars, arg, selA, selB, fstDom>>

NextDelay == Delay

SpecDelay == InitDelay /\ [][NextDelay]_vars

(* ================================================================ claims *)
AllPopulated ==
    endemicTable.ref # 0 /\ gdpTable.ref # 0 /\ populationTable.ref # 0

Active == {h \in H : call[h].pc # "idle"}

Selection == <<state.continentName, state.countryId>>

\* C1 - idempotent load: from a state in which the three tables are all
\* populated, no step issues a network request and no step changes any of
\* the three table references.
C1_IdempotentLoad ==
    [][AllPopulated =>
          /\ netSent' = 0
          /\ endemicTable' = endemicTable
          /\ gdpTable' = gdpTable
          /\ populationTable' = populationTable]_vars

\* a click handled after the load had completed: the second click of a
\* session ended by showing data, which the first must have loaded
C1_Witness ==
    AllPopulated /\ clicks >= 2 /\ lastEvent \in {"continentShown", "countryShown"}

\* C2 - failure short-circuit: once preloadError is set, no step issues a
\* network request (so no domain is fetched again).
C2_FailureShortCircuit == [][preloadError # Null => netSent' = 0]_vars

\* C3 - retry budget: a runSparqlGETWithRetry whose every attempt failed
\* with 429, 403 or 503 has issued exactly Retries + 1 requests when it
\* throws, it never issues more than that, and it does not return.
C3_RetryBudget ==
    /\ lastRun.result = "threw" /\ lastRun.onlyRetryable
           => lastRun.issued = Retries + 1
    /\ lastRun.onlyRetryable => lastRun.result # "returned"
    /\ \A h \in Active : call[h].onlyRetryable => call[h].issued <= Retries + 1

C3_Witness ==
    lastRun.result = "threw" /\ lastRun.onlyRetryable /\ lastRun.issued = Retries + 1

\* C4 - a non-retryable failure is definitive: a run that has received an
\* HTTP error status other than 429, 403 or 503 issues no further request,
\* waits for no backoff and is over.
C4_NonRetryableDefinitive == \A h \in H : call[h].sawFatal => call[h].pc = "idle"

\* C5 - in-flight guard: while inFlight is true no click passes its guard
\* and starts a handler, a click that is turned away changes nothing of the
\* program's state, and at most one handler (one preload) is in progress.
C5_InFlightGuard ==
    /\ [](Cardinality(Active) <= 1)
    /\ [][inFlight => clicks' = clicks /\ Active' \subseteq Active]_vars
    /\ [][lastEvent' = "clickIgnored" =>
             UNCHANGED <<endemicTable, gdpTable, populationTable, preloadError,
                         continentByCountryId, countriesByContinent, state,
                         inFlight, call, dom>>]_vars

\* a click turned away while a request of the running load is out
C5_Witness ==
    inFlight /\ lastEvent = "clickIgnored" /\ \E h \in H : call[h].pc = "fetch"

\* C6 - ready only after a complete load: a selected continent implies that
\* the three tables are populated and that no failure is remembered.
C6_ReadyOnlyAfterLoad ==
    /\ state.continentName # Null => AllPopulated /\ preloadError = Null
    /\ lastEvent \in {"continentShown", "countryShown"} => AllPopulated

C6_Witness == state.continentName # Null /\ lastEvent = "continentShown"

\* C7 - no recovery after a failure: from a state in which preloadError is
\* set, no step sets state.continentName or state.countryId to a value
\* other than null.
C7_NoRecovery ==
    [][preloadError # Null /\ Selection' # Selection
          => state'.continentName = Null /\ state'.countryId = NullId]_vars

\* a click that ended in failure although, by then, a later preload had
\* populated all three tables
C7_Witness ==
    preloadError # Null /\ AllPopulated /\ lastEvent = "continentFailed"

\* the queries a preload in progress has sent so far, and those of them
\* that have completed: preloadAllTables is at query c.q, whose request it
\* sent when the one before returned
SentQueries(c) == 1..c.q

CompletedQueries(c) == 1..(c.q - 1)

C9_WriteOnce ==
    [][/\ endemicTable.ref # 0 => endemicTable' = endemicTable
       /\ gdpTable.ref # 0 => gdpTable' = gdpTable
       /\ populationTable.ref # 0 => populationTable' = populationTable]_vars

\* C10 - timeout: no request is still unresolved, and not aborted, once
\* TimeoutMs have passed since it was sent.
C10_Timeout == \A h \in H : call[h].pc = "fetch" => call[h].elapsed < TimeoutMs

Built == res.op \in {"buildEndemicMap", "buildGdpMap", "buildPopulationMap"}

\* a text that is a decimal number, and the number it is
NumericText(t) == t # <<>> /\ AllDigits(t)

\* the rows of a result that carry a numeric isoNum
Keyed(rows) ==
    {i \in 1..Len(rows) : "isoNum" \in DOMAIN rows[i] /\ NumericText(rows[i].isoNum)}

\* C11 - row drop and key set: the key set of the table a builder returns
\* is the set of the integers the isoNum fields of the rows with a numeric
\* isoNum stand for; a row whose isoNum is missing, empty or not a number
\* gives no entry; the table has at most as many entries as there are rows.
C11_RowDropKeySet ==
    Built =>
        /\ DOMAIN res.out = {DigitPrefix(arg[i].isoNum, 0) : i \in Keyed(arg)}
        /\ Cardinality(DOMAIN res.out) <= Len(arg)

\* a table built from two rows of which only the second has a numeric isoNum
C11_Witness ==
    /\ Built /\ Len(arg) = 2 /\ Keyed(arg) = {2}
    /\ "isoNum" \in DOMAIN arg[1] /\ arg[1].isoNum = <<"a", "b", "c">>
    /\ Cardinality(DOMAIN res.out) = 1

\* the last row of a result whose isoNum stands for k
LastRowOf(rows, k) ==
    LET is == {i \in Keyed(rows) : DigitPrefix(rows[i].isoNum, 0) = k}
    IN rows[CHOOSE i \in is : \A j \in is : j <= i]

\* the numeric fields each builder reads
NumericFields(op) ==
    IF op = "buildEndemicMap"
    THEN {"totalEndemicSpecies", "nearThreatenedEndemicSpecies",
          "vulnerableEndemicSpecies", "endangeredEndemicSpecies",
          "criticallyEndangeredEndemicSpecies"}
    ELSE IF op = "buildGdpMap" THEN {"gdpUSD"} ELSE {"population"}

\* the number a field stands for when it is there and numeric, else 0
ValueOrZero(r, f) ==
    IF f \in DOMAIN r /\ NumericText(r[f]) THEN DigitPrefix(r[f], 0) ELSE 0

\* the text of a field when it is there, else the empty string
TextOrEmpty(r, f) == IF f \in DOMAIN r THEN r[f] ELSE <<>>

\* C12 - field defaults: in every record a builder stores, each numeric
\* field is the number its text stands for when the field is there and
\* parseable and 0 when it is missing or unparseable, and countryLabel and
\* iso3 are the empty string when the row does not carry them.
C12_FieldDefaults ==
    Built =>
        \A k \in DOMAIN res.out :
            LET r == LastRowOf(arg, k)
            IN /\ \A f \in NumericFields(res.op) : res.out[k][f] = ValueOrZero(r, f)
               /\ res.out[k].countryLabel = TextOrEmpty(r, "countryLabel")
               /\ res.out[k].iso3 = TextOrEmpty(r, "iso3")

Summarized == res.op = "summarizeContinent"

\* the key of a basemap feature: the number its id stands for
HasKey(feature) == NumericText(feature.id)

KeyOf(feature) == DigitPrefix(feature.id, 0)

\* the members (by position in the continent's list) with a record in T
Present(list, T) ==
    {i \in 1..Len(list) : HasKey(list[i]) /\ KeyOf(list[i]) \in DOMAIN T}

RECURSIVE SumFn(_, _)
\* the sum of g over the finite set S
SumFn(S, g) ==
    IF S = {} THEN 0
    ELSE LET x == CHOOSE y \in S : TRUE IN g[x] + SumFn(S \ {x}, g)

\* the sum of field f of T over the present members
FieldSum(list, T, f) ==
    SumFn(Present(list, T), [i \in Present(list, T) |-> T[KeyOf(list[i])][f]])

\* C13 - group sum correctness: the presence counts of summarizeContinent
\* are the numbers of members with a record in each table, its sums are the
\* sums of the fields over exactly those members, and threatened is the sum
\* of nt + vu + en + cr over the members with an endemic record.
C13_GroupSum ==
    Summarized =>
        LET list == arg.byCont[arg.name]
            eT == arg.endemicTable
            gT == arg.gdpTable
            pT == arg.populationTable
            s == res.out
        IN /\ s.endemicCount = Cardinality(Present(list, eT))
           /\ s.gdpCount = Cardinality(Present(list, gT))
           /\ s.popCount = Cardinality(Present(list, pT))
           /\ s.totalEndemic = FieldSum(list, eT, "totalEndemicSpecies")
           /\ s.gdpUSD = FieldSum(list, gT, "gdpUSD")
           /\ s.population = FieldSum(list, pT, "population")
           /\ s.threatened =
                  FieldSum(list, eT, "nearThreatenedEndemicSpecies")
                  + FieldSum(list, eT, "vulnerableEndemicSpecies")
                  + FieldSum(list, eT, "endangeredEndemicSpecies")
                  + FieldSum(list, eT, "criticallyEndangeredEndemicSpecies")

\* three members of which the second has no endemic record: two are
\* counted, and the totals are those of the first and the third
C13_Witness ==
    /\ Summarized /\ Len(arg.byCont[arg.name]) = 3
    /\ DOMAIN arg.endemicTable = {76, 276}
    /\ arg.byCont[arg.name][2].name = "France"
    /\ res.out.endemicCount = 2 /\ res.out.totalEndemic = 169
    /\ res.out.threatened = 16

\* C14 - no data is never shown as zero at group level: when a continent
\* summary is applied, a domain in which no member has a record shows the
\* dash and the status "No data", never the number 0; a domain in which some
\* member has a record shows the sum over those members and the count of
\* them, also when that sum is 0.
C14_NoDataNotZero ==
    Summarized =>
        LET list == arg.byCont[arg.name]
            eN == Cardinality(Present(list, arg.endemicTable))
            gN == Cardinality(Present(list, arg.gdpTable))
            pN == Cardinality(Present(list, arg.populationTable))
            d == res.panel
        IN /\ IF eN = 0
              THEN /\ d.totalEndemic = Dash /\ d.endangeredEndemic = Dash
                   /\ d.endemicStatus = Status("No data", 0, FALSE)
              ELSE /\ d.totalEndemic =
                          Num(FieldSum(list, arg.endemicTable, "totalEndemicSpecies"))
                   /\ d.endemicStatus = Status("Countries with endemic data: ", eN, FALSE)
           /\ IF gN = 0
              THEN d.gdp = Dash /\ d.gdpStatus = Status("No data", 0, FALSE)
              ELSE /\ d.gdp = Num(FieldSum(list, arg.gdpTable, "gdpUSD"))
                   /\ d.gdpStatus = Status("Countries with GDP data: ", gN, FALSE)
           /\ IF pN = 0
              THEN d.population = Dash /\ d.popStatus = Status("No data", 0, FALSE)
              ELSE /\ d.population =
                          Num(FieldSum(list, arg.populationTable, "population"))
                   /\ d.popStatus =
                          Status("Countries with population data: ", pN, FALSE)

\* a continent whose members have no endemic record at all, and population
\* records that add up to 0: a dash for the one, the number 0 for the other
C14_Witness ==
    /\ Summarized
    /\ res.out.endemicCount = 0 /\ res.panel.totalEndemic = Dash
    /\ res.panel.endemicStatus.msg = "No data"
    /\ res.out.popCount > 0 /\ res.out.population = 0
    /\ res.panel.population = Num(0)

Hydrated == res.op = "hydrateCountryPanel"

\* the rows of a result that stand for the country of a basemap feature
RowsOf(rows, feature) ==
    {i \in Keyed(rows) : HasKey(feature) /\ DigitPrefix(rows[i].isoNum, 0) = KeyOf(feature)}

\* what the panel is to show for field f of a country: a dash when the
\* result has no row for it, else the number of its (last) row, 0 included
Shown(rows, feature, f) ==
    IF RowsOf(rows, feature) = {} THEN Dash
    ELSE Num(ValueOrZero(LastRowOf(rows, KeyOf(feature)), f))

\* C15 - zero and absent for one country: a row with a valid key and zeros
\* in its numeric fields gives a table entry, and the country panel shows
\* the domain as present with the number 0; a country without a row in a
\* domain's result is shown with the dash of "no data"; each of the three
\* domains is decided on its own.
C15_ZeroVersusAbsent ==
    Hydrated =>
        /\ res.panel.totalEndemic =
               Shown(arg.bodies[1], res.feature, "totalEndemicSpecies")
        /\ res.panel.gdp = Shown(arg.bodies[2], res.feature, "gdpUSD")
        /\ res.panel.population = Shown(arg.bodies[3], res.feature, "population")
        /\ RowsOf(arg.bodies[1], res.feature) = {} <=> res.panel.endangeredEndemic = Dash

\* a country with a population row of 0 and no endemic row: the number 0
\* for the one and a dash for the other
C15_Witness ==
    /\ Hydrated /\ HasKey(res.feature)
    /\ KeyOf(res.feature) \in DOMAIN arg.populationTable
    /\ arg.populationTable[KeyOf(res.feature)].population = 0
    /\ KeyOf(res.feature) \notin DOMAIN arg.endemicTable
    /\ res.panel.population = Num(0) /\ res.panel.totalEndemic = Dash

Formatted == res.op = "formatYearNote"

\* the numerically smallest and largest year of a set
NumMin(set) == CHOOSE y \in set : \A z \in set : DigitPrefix(y, 0) <= DigitPrefix(z, 0)

NumMax(set) == CHOOSE y \in set : \A z \in set : DigitPrefix(z, 0) <= DigitPrefix(y, 0)

\* C16 as stated - year-range formatting: "" for the empty set, "latest
\* year: Y" for {Y}, "latest years: m-M" for two or more years, m and M the
\* numerically smallest and largest, whatever the order of insertion.
C16_YearNoteAsStated ==
    Formatted =>
        LET set == Elements(arg)
        IN res.out = IF set = {} THEN NoText
                     ELSE IF Cardinality(set) = 1
                     THEN Text("latest year: ", NumMin(set), <<>>)
                     ELSE Text("latest years: ", NumMin(set), NumMax(set))

RECURSIVE Pow10(_)
Pow10(n) == IF n = 0 THEN 1 ELSE 10 * Pow10(n - 1)

\* a comes before b in the string order of digit strings of up to five
\* characters: compare the numbers they make once padded with zeros on the
\* right, a string going before those it is a proper prefix of
Before(a, b) ==
    LET ka == DigitPrefix(a, 0) * Pow10(5 - Len(a))
        kb == DigitPrefix(b, 0) * Pow10(5 - Len(b))
    IN ka < kb \/ (ka = kb /\ Len(a) < Len(b))

\* C16 amended - year-range formatting: "" for the empty set, "Latest year:
\* Y" for {Y}, "Latest years: m-M" for two or more years, m and M the first
\* and the last year in string order whatever the order of insertion; they
\* are the numerically smallest and largest when the years have the same
\* number of digits.
C16_YearNote ==
    Formatted =>
        LET set == Elements(arg)
            out == res.out
        IN IF set = {} THEN out = NoText
           ELSE IF Cardinality(set) = 1
           THEN out = Text("Latest year: ", CHOOSE y \in set : TRUE, <<>>)
           ELSE /\ out.prefix = "Latest years: "
                /\ out.lo \in set /\ out.hi \in set
                /\ \A y \in set \ {out.lo} : Before(out.lo, y)
                /\ \A y \in set \ {out.hi} : Before(y, out.hi)
                /\ (\A y, z \in set : Len(y) = Len(z)) =>
                       out.lo = NumMin(set) /\ out.hi = NumMax(set)

\* 2018, 2021 and 2019 added in that order
C16_Witness ==
    /\ Formatted /\ arg = <<Y2018, Y2021, Y2019>>
    /\ res.out = Text("Latest years: ", Y2018, Y2021)

\* C17 - last write wins: when several rows of a result share a numeric key
\* (as "076" and "76" do), the table has one entry for the key and its
\* fields are those of the last of these rows.
C17_LastWriteWins ==
    Built =>
        \A k \in DOMAIN res.out :
            LET same == {i \in Keyed(arg) : DigitPrefix(arg[i].isoNum, 0) = k}
                r == arg[CHOOSE i \in same : \A j \in same : j <= i]
                e == res.out[k]
            IN /\ e.isoNum = r.isoNum
               /\ e.countryLabel = TextOrEmpty(r, "countryLabel")
               /\ e.iso3 = TextOrEmpty(r, "iso3")
               /\ \A f \in NumericFields(res.op) :
                      f \in DOMAIN r /\ NumericText(r[f]) => e[f] = DigitPrefix(r[f], 0)
               /\ \A f \in NumericFields(res.op) :
                      f \notin DOMAIN r \/ r[f] = <<>> => e[f] = 0

\* a row of code "76" and then a row of code "076" with other fields: one
\* entry, under 76, of the second row
C17_Witness ==
    /\ Built /\ Len(arg) = 2 /\ Keyed(arg) = {1, 2}
    /\ arg[1].isoNum = Str76 /\ arg[2].isoNum = <<"0", "7", "6">>
    /\ DOMAIN res.out = {76}
    /\ res.out[76].isoNum = <<"0", "7", "6">>
    /\ res.out[76].countryLabel = <<>>

Delayed == res.op = "delayWithJitter"

\* C18 as stated - backoff bound: the delay before retry n is at least
\* baseDelayMs * n and at most 800 + 400 ms, for every jitter.
C18_BackoffBoundAsStated ==
    Delayed => BaseDelayMs * arg.attempt <= res.out /\ res.out <= DelayCapMs + JitterMs

\* C18 amended - backoff bound: the delay before retry n is at least
\* min(800, baseDelayMs * n) and at most 800 + 400 ms, for every jitter.
C18_BackoffBound ==
    Delayed =>
        /\ Min(DelayCapMs, BaseDelayMs * arg.attempt) <= res.out
        /\ res.out <= DelayCapMs + JitterMs

\* the third retry: the delay is capped below baseDelayMs * 3
C18_Witness ==
    Delayed /\ arg.attempt = Retries /\ res.out < BaseDelayMs * arg.attempt

\* the three status lines all carry the request-failed message, as errors
FailureShown(d) ==
    /\ d.endemicStatus = Status("Request failed: unexpected error.", 0, TRUE)
    /\ d.gdpStatus = Status("Request failed: unexpected error.", 0, TRUE)
    /\ d.popStatus = Status("Request failed: unexpected error.", 0, TRUE)

\* C19 - failure shown, title still renders: in the step in which the load
\* a continent click started fails for good, the panel title is the name of
\* the clicked continent and the three status lines carry the
\* request-failed message (none says "No data").
C19_FailureShownTitleRenders ==
    [][\A h \in H :
          /\ call[h].pc # "idle" /\ call[h].kind = "continent"
          /\ call'[h].pc = "idle" /\ lastEvent' = "continentFailed"
          => /\ dom'.title = Text(call[h].contName, <<>>, <<>>)
             /\ FailureShown(dom')]_vars

Combined == res.op = "combineDataset"

\* the rows of the combined dataset that stand for the country of key k
RowsFor(k) == {i \in 1..Len(res.out) : res.out[i].isoNumeric = k}

\* C20 - correlation dataset membership: combineDataset gives exactly one
\* row for every country with a record in all three tables and a total of
\* endemic species of at least MIN_ENDEMIC, and no row for any other.
C20_DatasetMembership ==
    Combined =>
        LET eT == arg.endemicTable
            gT == arg.gdpTable
            pT == arg.populationTable
            all == DOMAIN eT \cup DOMAIN gT \cup DOMAIN pT
                       \cup {res.out[i].isoNumeric : i \in 1..Len(res.out)}
        IN \A k \in all :
              Cardinality(RowsFor(k)) =
                  IF /\ k \in DOMAIN eT /\ k \in DOMAIN gT /\ k \in DOMAIN pT
                     /\ eT[k].totalEndemicSpecies >= 50
                  THEN 1 ELSE 0

\* three countries in all three tables with totals 120, 50 and 49: the
\* first two are in the dataset, the third is not
C20_Witness ==
    /\ Combined
    /\ DOMAIN arg.gdpTable = {76, 250, 276}
    /\ DOMAIN arg.populationTable = {76, 250, 276}
    /\ DOMAIN arg.endemicTable = {76, 250, 276}
    /\ arg.endemicTable[250].totalEndemicSpecies = 50
    /\ arg.endemicTable[276].totalEndemicSpecies = 49
    /\ {res.out[i].isoNumeric : i \in 1..Len(res.out)} = {76, 250}

\* C21 - Ready and Failed are exclusive: in no reachable state are the
\* three tables all populated while a failure is remembered.
C21_ReadyFailedExclusive == ~(AllPopulated /\ preloadError # Null)

\* C22 - bounded, strictly ordered attempts: whatever the outcomes of its
\* attempts, a run of runSparqlGETWithRetry sends a request only when none
\* of its own is out, sends at most Retries + 1 requests, and, when every
\* request settles, ends by returning or by throwing.
C22_BoundedOrderedAttempts ==
    /\ [][\A h \in H : call'[h].pc = "fetch" /\ call'[h].issued # call[h].issued
             => call[h].pc # "fetch" /\ netSent' = 1]_vars
    /\ [](\A h \in H : call[h].issued <= Retries + 1)
    /\ [](lastRun.issued <= Retries + 1)
    /\ (Active # {}) ~> (lastRun.result \in {"returned", "threw"})

\* a run that met a retryable status, a rejected fetch, a body that was no
\* JSON, and then returned a result with its fourth request
C22_Witness ==
    /\ lastRun.result = "returned" /\ lastRun.issued = Retries + 1
    /\ lastRun.sawFatal /\ ~lastRun.onlyRetryable

\* C23 - the Back button follows the selection: in every reachable state a
\* selected continent implies that the Back button is enabled.
C23_BackFollowsSelection == state.continentName # Null => ~dom.backDisabled

\* C24 - every click completes: when every request settles, a click that
\* has passed the guard (inFlight is true) is followed by a state in which
\* inFlight is false and the loading indicator is hidden; the step in which
\* a handler ends, on success or on failure, leaves both so.
C24_EveryClickCompletes ==
    /\ inFlight ~> (~inFlight /\ ~dom.loading)
    /\ [][\A h \in H : call[h].pc # "idle" /\ call'[h].pc = "idle"
             => ~inFlight' /\ ~dom'.loading]_vars
    /\ [](Active = {} => ~inFlight /\ ~dom.loading)

\* a continent click whose load has just failed after all its retries
C24_Witness ==
    /\ lastEvent = "continentFailed" /\ lastRun.result = "threw"
    /\ lastRun.issued = Retries + 1 /\ ~inFlight /\ ~dom.loading

\* C25 - selection unchanged on failure: the step in which the load of a
\* continent or country click fails leaves state.continentName and
\* state.countryId as they were, and no step taken while the handler is
\* suspended changes them, so they are what they were before the click.
C25_SelectionUnchangedOnFailure ==
    /\ [][lastEvent' \in {"continentFailed", "countryFailed"}
             => Selection' = Selection]_vars
    /\ [][inFlight /\ inFlight' => Selection' = Selection]_vars

\* a continent click that failed at the GDP query, the endemic table
\* being built by then
C25_Witness ==
    /\ lastEvent = "continentFailed" /\ lastRun.result = "threw" /\ lastRun.q = 2
    /\ endemicTable.ref # 0 /\ Selection = <<Null, NullId>>

SummaryShown ==
    <<dom.totalEndemic, dom.endangeredEndemic, dom.gdp, dom.gdpYear,
      dom.population, dom.popYear, dom.endemicStatus, dom.gdpStatus,
      dom.popStatus>>

\* C27 - read-only after load: once the three tables are loaded no step (a
\* continent click, a country click, Back, with the summarizeContinent or
\* hydrateCountryPanel it runs) changes continentByCountryId,
\* countriesByContinent or the contents of a table, and a continent
\* summarized twice in a row shows the same summary both times.
C27_ReadOnlyAfterLoad ==
    /\ [][AllPopulated =>
             /\ continentByCountryId' = continentByCountryId
             /\ countriesByContinent' = countriesByContinent
             /\ endemicTable'.map = endemicTable.map
             /\ gdpTable'.map = gdpTable.map
             /\ populationTable'.map = populationTable.map]_vars
    /\ [][/\ AllPopulated
          /\ lastEvent = "continentShown" /\ lastEvent' = "continentShown"
          /\ state'.continentName = state.continentName
          => SummaryShown' = SummaryShown]_vars

\* Europe summarized a second time, from the tables the first click loaded
C27_Witness ==
    /\ AllPopulated /\ clicks = 2 /\ lastRun = NoRun
    /\ lastEvent = "continentShown" /\ state.continentName = "Europe"
    /\ endemicTable.map # EmptyMap

\* C28 - the threatened fraction is a fraction: every row combineDataset
\* gives has threatenedEndemic (nt + vu + en + cr) at most totalEndemic, so
\* that threatened / total lies between 0 and 1.
C28_ThreatenedFraction ==
    Combined =>
        \A i \in 1..Len(res.out) :
            /\ res.out[i].threatenedEndemic <= res.out[i].totalEndemic
            /\ 0 <= res.out[i].fraction.num
            /\ res.out[i].fraction.num <= res.out[i].fraction.den

Clicked == res.op = "click"

\* C29 - the selection cycle of the F_ST widget: a click when no country A
\* is selected, or when A and B both are, makes the clicked country the new
\* A and clears B; a click when only A is selected makes the clicked
\* country B and leaves A as it was; so B selected implies A selected.
C29_SelectionCycle ==
    /\ [][/\ (~selA.present \/ selB.present)
               => selA'.present /\ selA'.el = res'.el /\ ~selB'.present
          /\ (selA.present /\ ~selB.present)
               => selB'.present /\ selB'.el = res'.el /\ selA' = selA]_vars
    /\ [](selB.present => selA.present)

\* a third click: France starts a new pair after Brazil and Nigeria
C29_Witness ==
    /\ Clicked /\ res.el = 2 /\ selA.present /\ selA.name = "France"
    /\ ~selB.present /\ fstDom.selectedA = {2} /\ fstDom.selectedB = {}
    /\ fstDom.bName = "--"

\* C30 - the widget reports missing estimates: whenever two countries are
\* selected and superPop gives null for at least one of them, the panel
\* shows the dash as the F_ST value and "No estimate available for this
\* pair yet." as the explanation.
C30_MissingEstimate ==
    selA.present /\ selB.present
        /\ (superPop(selA.iso3) = Null \/ superPop(selB.iso3) = Null)
    => /\ fstDom.fst = "--"
       /\ fstDom.explain = "No estimate available for this pair yet."

====
